---- MODULE Spec2Model ----
(***************************************************************************)
(* A model of zpywallet's BIP32 HD wallet node (utils/bip32.py, class      *)
(* HDWallet) and of its provider load balancer (address/eth/               *)
(* loadbalancer.py, class EthereumAPIClient).                              *)
(*                                                                         *)
(* Representation.  A Python str/bytes value is a sequence of one-char     *)
(* strings; a bytes value that holds raw octets is a sequence of 0..255;   *)
(* a Python int that may exceed 32-bit machine integers (child             *)
(* numbers, version words, fingerprints, chain codes read as integers) is  *)
(* a numeral: the sequence of its base-16 digit values, most significant   *)
(* first, without leading zeros (zero is the empty sequence).  Small       *)
(* Python ints (depth, scalars of the scaled curve) are naturals.          *)
(*                                                                         *)
(* secp256k1 is scaled to the curve of the same equation y^2 = x^3 + 7     *)
(* over the field of 13 elements, whose group has prime order 7; HMAC and  *)
(* Hash160 are scaled to small deterministic mixing functions.             *)
(***************************************************************************)
EXTENDS Integers, Sequences, FiniteSets, TLC

----------------------------------------------------------------------------
(* Hex digits, numerals, hex strings and octets                            *)

HexChars == <<"0","1","2","3","4","5","6","7","8","9","a","b","c","d","e","f">>

HexChr(d) == HexChars[d + 1]

\* The value of each hex character.
HexValue == [c \in {HexChars[i] : i \in 1..16} |-> CHOOSE d \in 0..15 : HexChars[d + 1] = c]

IsHexChar(c) == c \in DOMAIN HexValue

HexVal(c) == HexValue[c]

DecChars == <<"0","1","2","3","4","5","6","7","8","9">>

IsDecChar(c) == c \in {DecChars[i] : i \in 1..10}

\* Drop the leading zero digits of a digit sequence.
Strip(s) ==
  LET nz == {i \in 1..Len(s) : s[i] # 0}
  IN  IF nz = {} THEN <<>>
      ELSE SubSeq(s, CHOOSE i \in nz : \A j \in nz : i <= j, Len(s))

\* The numeral of a natural number.
RECURSIVE NatToNum(_)
NatToNum(n) ==
  IF n = 0 THEN <<>> ELSE Append(NatToNum(n \div 16), n % 16)

\* The natural number of a numeral (only used where the value is small).
RECURSIVE NumToNat(_)
NumToNat(s) ==
  IF s = <<>> THEN 0 ELSE NumToNat(SubSeq(s, 1, Len(s) - 1)) * 16 + s[Len(s)]

\* a < b on numerals: shorter is smaller, equal length compares at the first
\* digit that differs.
LexLT(a, b) ==
  LET d == {i \in 1..Len(a) : a[i] # b[i]}
  IN  d # {} /\ LET i == CHOOSE i \in d : \A j \in d : i <= j IN a[i] < b[i]

NumLT(a, b) ==
  IF Len(a) # Len(b) THEN Len(a) < Len(b) ELSE LexLT(a, b)

NumGE(a, b) == ~NumLT(a, b)

\* s * m + c on a digit sequence, for a small multiplier m and carry c.
RECURSIVE MulAdd(_, _, _)
MulAdd(s, m, c) ==
  IF s = <<>> THEN NatToNum(c)
  ELSE LET v == s[Len(s)] * m + c
       IN  Append(MulAdd(SubSeq(s, 1, Len(s) - 1), m, v \div 16), v % 16)

\* a + b on numerals (c is the carry).
RECURSIVE AddCarry(_, _, _)
AddCarry(a, b, c) ==
  IF a = <<>> /\ b = <<>> THEN NatToNum(c)
  ELSE LET x == IF a = <<>> THEN 0 ELSE a[Len(a)]
           y == IF b = <<>> THEN 0 ELSE b[Len(b)]
           ra == IF a = <<>> THEN <<>> ELSE SubSeq(a, 1, Len(a) - 1)
           rb == IF b = <<>> THEN <<>> ELSE SubSeq(b, 1, Len(b) - 1)
           v == x + y + c
       IN  Append(AddCarry(ra, rb, v \div 16), v % 16)

NumAdd(a, b) == Strip(AddCarry(a, b, 0))

\* utils.long_to_hex(l, size): format(l, "0<size>x"): zero-padded to size hex
\* characters, never truncated.
long_to_hex(num, size) ==
  LET k == IF Len(num) = 0 THEN 1 ELSE Len(num)      \* format(0, "x") is "0"
      n == IF k >= size THEN k ELSE size
  IN  [i \in 1..n |-> IF i <= n - Len(num) THEN "0" ELSE HexChr(num[i - (n - Len(num))])]

\* utils.is_hex_string: every character is a hex digit.
is_hex_string(s) == \A i \in 1..Len(s) : IsHexChar(s[i])

\* int(s, 16) of a string of hex digits.
HexToNum(s) == Strip([i \in 1..Len(s) |-> HexVal(s[i])])

\* binascii.hexlify: two hex characters per octet.
hexlify(bs) ==
  [i \in 1..(2 * Len(bs)) |->
     IF i % 2 = 1 THEN HexChr(bs[(i + 1) \div 2] \div 16)
                  ELSE HexChr(bs[i \div 2] % 16)]

\* binascii.unhexlify of an even-length string of hex digits.
unhexlify(s) ==
  [i \in 1..(Len(s) \div 2) |-> HexVal(s[2 * i - 1]) * 16 + HexVal(s[2 * i])]

\* int(hexlify(octets), 16).
BytesToNum(bs) == HexToNum(hexlify(bs))

\* n as `size` octets, big-endian (n small).
NatToBytes(n, size) == unhexlify(long_to_hex(NatToNum(n), 2 * size))

----------------------------------------------------------------------------
(* The curve (keys.secp256k1, scaled), keys, HMAC and Hash160               *)

\* The field prime of the scaled curve y^2 = x^3 + 7.
FieldP == 13

\* secp256k1.N: the order of the curve's group.
N == 7

\* secp256k1.Gx, secp256k1.Gy: the generator.
Gx == 7

Gy == 5

\* Python's None where a key, a point or a scalar is expected.
None == -1

\* None where a point or a PublicKey object is expected.
NoPoint == <<None, None>>

G == <<Gx, Gy>>

\* The point at infinity (not a point of the curve: 0 # 0 + 7).
Inf == <<0, 0>>

OnCurve(pt) ==
  /\ pt[1] \in 0..(FieldP - 1) /\ pt[2] \in 0..(FieldP - 1)
  /\ (pt[2] * pt[2]) % FieldP = (pt[1] * pt[1] * pt[1] + 7) % FieldP

Inv(a) == CHOOSE b \in 1..(FieldP - 1) : (a * b) % FieldP = 1

\* Point addition (coincurve's add / the keys module's Point arithmetic).
PointAdd(p, q) ==
  IF p = Inf THEN q
  ELSE IF q = Inf THEN p
  ELSE IF p[1] = q[1] /\ (p[2] + q[2]) % FieldP = 0 THEN Inf
  ELSE LET lam == IF p = q
                  THEN (3 * p[1] * p[1] * Inv((2 * p[2]) % FieldP)) % FieldP
                  ELSE (((q[2] - p[2]) % FieldP) * Inv((q[1] - p[1]) % FieldP)) % FieldP
           x3 == (lam * lam - p[1] - q[1]) % FieldP
           y3 == (lam * (p[1] - x3) - p[2]) % FieldP
       IN  <<x3, y3>>

\* Scalar multiplication k * p.
RECURSIVE PointMul(_, _)
PointMul(k, p) == IF k = 0 THEN Inf ELSE PointAdd(PointMul(k - 1, p), p)

\* PrivateKey.public_key: the point k * G.
PublicOf(k) == PointMul(k, G)

\* PrivateKey.to_hex(): the scalar as 64 hex characters.
PrivateToHex(k) == long_to_hex(NatToNum(k), 64)

\* PublicKey.to_hex(compressed=True): 02/03 by the parity of y, then x.
PublicToHex(pt) ==
  <<"0", IF pt[2] % 2 = 0 THEN "2" ELSE "3">> \o long_to_hex(NatToNum(pt[1]), 64)

\* PublicKey.from_bytes on a 33-octet compressed key: the point, or None when
\* the octets name no point of the curve.
PublicFromBytes(bs) ==
  LET x == BytesToNum(SubSeq(bs, 2, Len(bs)))
      ys == IF Len(x) > 1 THEN {}
            ELSE {y \in 0..(FieldP - 1) :
                    /\ OnCurve(<<NumToNat(x), y>>)
                    /\ y % 2 = bs[1] % 2}
  IN  IF Len(bs) = 33 /\ bs[1] \in {2, 3} /\ ys # {}
      THEN <<NumToNat(x), CHOOSE y \in ys : TRUE>>
      ELSE NoPoint

\* A deterministic mixing of octets, standing for the compression functions:
\* the non-zero octets are folded in order, each with its position, starting
\* from the length.
RECURSIVE MixItems(_, _)
MixItems(items, len) ==
  IF items = <<>> THEN len + 17
  ELSE LET h == MixItems(SubSeq(items, 1, Len(items) - 1), len)
           x == items[Len(items)]
       IN  ((h + 256 * x[1] + x[2]) * (h + 3)) % 32749

Mix(bs) ==
  MixItems(SelectSeq([i \in 1..Len(bs) |-> <<i, bs[i]>>], LAMBDA x : x[2] # 0), Len(bs))

\* hmac.new(key, msg, sha512).digest(), split as the callers split it: the left
\* 32 octets (a value in 0..8, so that values >= N and 0 occur) and the right
\* 32 octets (a chain code, one of 4 values).
HmacSha512(key, msg) ==
  LET h == Mix(key \o <<0>> \o msg)
  IN  [left |-> NatToBytes(h % 9, 32), right |-> NatToBytes((h \div 9) % 4, 32)]

\* utils.hash160: RIPEMD160(SHA256(octets)), 20 octets.
hash160(bs) ==
  LET h == Mix(bs)
  IN  [i \in 1..20 |-> (h * i + i) % 256]

----------------------------------------------------------------------------
(* Networks (the network module's parameter classes)                       *)

\* Version words as numerals; an undefined version (None) is the empty
\* numeral, which is falsy like None and 0.
NetTable ==
  [BTC  |-> [NAME |-> "BTC",
             EXT_PUBLIC_KEY |-> HexToNum(<<"0","4","8","8","b","2","1","e">>),
             EXT_SECRET_KEY |-> HexToNum(<<"0","4","8","8","a","d","e","4">>),
             EXT_SEGWIT_PUBLIC_KEY |-> HexToNum(<<"0","4","b","2","4","7","4","6">>),
             EXT_SEGWIT_SECRET_KEY |-> HexToNum(<<"0","4","b","2","4","3","0","c">>)],
   DOGE |-> [NAME |-> "DOGE",
             EXT_PUBLIC_KEY |-> HexToNum(<<"0","2","f","a","c","a","f","d">>),
             EXT_SECRET_KEY |-> HexToNum(<<"0","2","f","a","c","3","9","8">>),
             EXT_SEGWIT_PUBLIC_KEY |-> <<>>,
             EXT_SEGWIT_SECRET_KEY |-> <<>>],
   NOEXT |-> [NAME |-> "NOEXT",
              EXT_PUBLIC_KEY |-> <<>>,
              EXT_SECRET_KEY |-> <<>>,
              EXT_SEGWIT_PUBLIC_KEY |-> <<>>,
              EXT_SEGWIT_SECRET_KEY |-> <<>>]]

\* The networks with extended-key version words (keys are read back under
\* these).
Networks == {"BTC", "DOGE"}

\* All networks; NOEXT stands for a network class that defines no
\* extended-key version words.
AllNetworks == {"BTC", "DOGE", "NOEXT"}

----------------------------------------------------------------------------
(* Results, dynamically typed arguments, nodes                             *)

\* A constructor argument that may be an int or a str/bytes value.
IntV(num) == [t |-> "int", v |-> num]

StrV(chars) == [t |-> "str", v |-> chars]

\* The placeholder where an operation yields no node.
NoNode ==
  [chain_code |-> <<>>, depth |-> None, parent_fingerprint |-> <<>>,
   child_number |-> <<>>, private_key |-> None, public_key |-> NoPoint,
   network |-> "none"]

\* An operation's outcome: a node, or serialized data, or a raised exception
\* (err is the exception class, msg tells the raise statements apart).
Ok(node) == [ok |-> TRUE, err |-> "", msg |-> "", node |-> node, data |-> <<>>]

OkData(d) == [ok |-> TRUE, err |-> "", msg |-> "", node |-> NoNode, data |-> d]

Fail(e, m) == [ok |-> FALSE, err |-> e, msg |-> m, node |-> NoNode, data |-> <<>>]

\* The character codes hexlify sees for a str that is not a hex string.
Ascii(c) ==
  IF IsHexChar(c)
  THEN (IF HexVal(c) < 10 THEN 48 + HexVal(c) ELSE 87 + HexVal(c))
  ELSE IF c = "x" THEN 120 ELSE 63

\* __init__.hex_check_length: an int is formatted to hex_len characters, a hex
\* string must have exactly hex_len characters.
hex_check_length(val, hex_len) ==
  IF val.t = "int" THEN OkData(long_to_hex(val.v, hex_len))
  ELSE IF val.t = "str" /\ is_hex_string(val.v)
  THEN (IF Len(val.v) # hex_len
        THEN Fail("ValueError", "Invalid parameter length")
        ELSE OkData(val.v))
  ELSE Fail("ValueError", "Invalid parameter type")

\* __init__.hex_int: an int as it is, a str/bytes value read in base 16 (after
\* hexlify when it is not a hex string).  The outcome's data is the numeral.
hex_int(val) ==
  IF val.t = "int" THEN OkData(val.v)
  ELSE IF val.t = "str"
  THEN (IF val.v = <<>> THEN Fail("ValueError", "invalid literal for int()")
        ELSE IF ~is_hex_string(val.v)
        THEN OkData(HexToNum(hexlify([i \in 1..Len(val.v) |-> Ascii(val.v[i])])))
        ELSE OkData(HexToNum(val.v)))
  ELSE Fail("ValueError", "parameter must be an int or long")

StartsWith0x(s) == Len(s) >= 2 /\ s[1] = "0" /\ s[2] = "x"

\* HDWallet.__init__.  private_exponent is a scalar or None, private_key a
\* PrivateKey (its scalar) or None, public_pair a Point or NoPoint, public_key
\* a PublicKey (its point) or NoPoint.
HDWallet(chain_code, depth, parent_fingerprint, child_number, private_exponent, private_key, public_pair, public_key, network) ==
  LET exponentGiven == private_exponent # None /\ private_exponent # 0
      priv == IF private_key # None THEN private_key
              ELSE IF exponentGiven THEN private_exponent
              ELSE None
      pub == IF public_key # NoPoint THEN public_key
             ELSE IF public_pair # NoPoint THEN public_pair
             ELSE PublicOf(priv)
      d == hex_int(depth)
      pf == IF parent_fingerprint.t = "str" /\ StartsWith0x(parent_fingerprint.v)
            THEN StrV(SubSeq(parent_fingerprint.v, 3, Len(parent_fingerprint.v)))
            ELSE parent_fingerprint
      fp == hex_check_length(pf, 8)
      cn == hex_int(child_number)
      cc == hex_check_length(chain_code, 64)
  IN  IF ~(exponentGiven \/ private_key # None)
         /\ ~(public_pair # NoPoint \/ public_key # NoPoint)
      THEN Fail("ValueError", "You must supply one of private_exponent or public_pair")
      ELSE IF priv # None /\ PublicOf(priv) # pub
      THEN Fail("ValueError", "Provided private and public values do not match")
      ELSE IF ~d.ok THEN d
      ELSE IF ~fp.ok THEN fp
      ELSE IF ~cn.ok THEN cn
      ELSE IF ~cc.ok THEN cc
      ELSE Ok([chain_code |-> cc.data,
               depth |-> NumToNat(d.data),
               parent_fingerprint |-> <<"0", "x">> \o fp.data,
               child_number |-> cn.data,
               private_key |-> priv,
               public_key |-> pub,
               network |-> network])

\* HDWallet.get_private_key_hex / get_public_key_hex.
get_private_key_hex(self) == PrivateToHex(self.private_key)

get_public_key_hex(self) == PublicToHex(self.public_key)

\* HDWallet.identifier: hexlify(hash160(public key octets)).
identifier(self) == hexlify(hash160(unhexlify(get_public_key_hex(self))))

\* HDWallet.fingerprint: "0x" and the first 8 hex characters of the identifier.
fingerprint(self) == <<"0", "x">> \o SubSeq(identifier(self), 1, 8)

\* HDWallet.public_copy.
public_copy(self) ==
  HDWallet(StrV(self.chain_code), IntV(NatToNum(self.depth)),
           StrV(self.parent_fingerprint), IntV(self.child_number),
           None, None, self.public_key, NoPoint, self.network)

----------------------------------------------------------------------------
(* Child key derivation                                                    *)

\* boundary = 0x80000000 (get_child).
boundary == HexToNum(<<"8","0","0","0","0","0","0","0">>)

\* A Python int argument that may be negative: its sign and its magnitude.
Pos(num) == [neg |-> FALSE, mag |-> num]

Neg(num) == [neg |-> TRUE, mag |-> num]

\* b^e mod m.
RECURSIVE PowMod(_, _, _)
PowMod(b, e, m) ==
  IF e = 0 THEN 1 % m
  ELSE LET h == PowMod(b, e \div 2, m)
       IN  IF e % 2 = 0 THEN (h * h) % m ELSE (h * h * b) % m

\* num mod m for a numeral and a small modulus.
RECURSIVE NumMod(_, _)
NumMod(s, m) ==
  IF Len(s) = 0 THEN 0
  ELSE IF Len(s) = 1 THEN s[1] % m
  ELSE LET k == Len(s) \div 2
       IN  (NumMod(SubSeq(s, 1, k), m) * PowMod(16, Len(s) - k, m)
              + NumMod(SubSeq(s, k + 1, Len(s)), m)) % m

\* PublicKey.to_bytes(): the key's octets (compressed SEC1 form).
PublicToBytes(pt) == unhexlify(PublicToHex(pt))

\* coincurve.PublicKey.multiply(scalar): validate_secret(scalar), then
\* secp256k1_ec_pubkey_tweak_mul.  A scalar outside 1..N-1 raises ValueError.
CoincurveMultiply(pt, scalar) ==
  LET k == BytesToNum(scalar)
  IN  IF k = <<>> \/ NumGE(k, NatToNum(N)) THEN [ok |-> FALSE, pt |-> NoPoint]
      ELSE [ok |-> TRUE, pt |-> PointMul(NumToNat(k), pt)]

\* coincurve.PublicKey.add(scalar): secp256k1_ec_pubkey_tweak_add, which reads
\* 32 octets as a scalar t and returns the key's point plus t * G (it adds a
\* scalar, not a point; points are added by combine).  It raises ValueError
\* when the sum is the point at infinity.  On secp256k1 the first 32 octets of
\* an encoded public key are a scalar below N; on the scaled curve that
\* scalar is taken modulo N.
CoincurveAdd(pt, scalar) ==
  LET t == NumMod(BytesToNum(SubSeq(scalar, 1, 32)), N)
      r == PointAdd(pt, PointMul(t, G))
  IN  IF r = Inf THEN [ok |-> FALSE, pt |-> NoPoint] ELSE [ok |-> TRUE, pt |-> r]

\* get_child, lines 338-353: the child's private exponent when the parent has
\* a private key, else the child's public point.
ChildKeyMaterial(self, ichild_left) ==
  IF self.private_key # None
  THEN [ok |-> TRUE,
        private_exponent |-> (NumToNat(BytesToNum(ichild_left)) + self.private_key) % N,
        point |-> NoPoint]
  ELSE LET m == CoincurveMultiply(G, ichild_left)
           a == IF m.ok THEN CoincurveAdd(m.pt, PublicToBytes(self.public_key)) ELSE m
       IN  [ok |-> a.ok, private_exponent |-> None, point |-> a.pt]

\* Variant of BoundaryCheck: the comparison is strict, so 0x80000000 itself
\* passes.
BoundaryCheckStrict(child_number) == NumLT(boundary, child_number.mag)

\* get_child, line 291: abs(child_number) >= boundary.
BoundaryCheck(child_number) == NumGE(child_number.mag, boundary)

\* Variant of InferPrime: nothing is inferred from the sign, a child is prime
\* only when is_prime is True.
InferPrimeExplicit(child_number, is_prime) == is_prime = "True"

\* get_child, lines 294-301: is_prime as given, or inferred from the sign of
\* child_number when it is None.
InferPrime(child_number, is_prime) ==
  IF is_prime = "None" THEN child_number.neg /\ child_number.mag # <<>>
  ELSE is_prime = "True"

\* Variant of ChildNumberOf: the boundary is not added for a prime child.
ChildNumberOfPlain(number, prime) == number

\* Variant of ExplicitRangeCheck: the range of child_number is never looked
\* at when is_prime is given.
ExplicitRangeCheckOff(child_number, is_prime) == FALSE

\* get_child, lines 302-306: with is_prime given, child_number < 0 or
\* child_number >= boundary.
ExplicitRangeCheck(child_number, is_prime) ==
  /\ is_prime # "None"
  /\ \/ child_number.neg /\ child_number.mag # <<>>
     \/ ~child_number.neg /\ NumGE(child_number.mag, boundary)

\* get_child, lines 312-316: the child number used in the derivation.
ChildNumberOf(number, prime) == IF prime THEN NumAdd(number, boundary) ELSE number

\* get_child, lines 318-323: the HMAC message as a hex string.
DerivationData(self, prime, child_number_hex) ==
  (IF prime THEN <<"0", "0">> \o get_private_key_hex(self)
            ELSE get_public_key_hex(self)) \o child_number_hex

\* get_child, lines 355-365: construct the child, strip it when asked.
MakeChild(self, c_i, child_number_hex, key, as_private) ==
  LET child == HDWallet(StrV(c_i), IntV(NatToNum(self.depth + 1)), StrV(fingerprint(self)), StrV(child_number_hex), key.private_exponent, None, key.point, NoPoint, self.network)
  IN  IF child.ok /\ ~as_private THEN public_copy(child.node) ELSE child

\* HDWallet.get_child(child_number, is_prime, as_private); is_prime is "None",
\* "True" or "False".
get_child(self, child_number, is_prime, as_private) ==
  LET negative == child_number.neg /\ child_number.mag # <<>>
      number == child_number.mag
      prime == InferPrime(child_number, is_prime)
      child_number_hex == long_to_hex(ChildNumberOf(number, prime), 8)
      ichild == HmacSha512(unhexlify(self.chain_code), unhexlify(DerivationData(self, prime, child_number_hex)))
      key == ChildKeyMaterial(self, ichild.left)
  IN  IF BoundaryCheck(child_number)
      THEN Fail("InvalidPathError", "Invalid child number")
      ELSE IF ExplicitRangeCheck(child_number, is_prime)
      THEN Fail("ValueError", "Invalid child number. Must be between 0 and boundary")
      ELSE IF self.private_key = None /\ prime
      THEN Fail("WatchOnlyWalletError", "Cannot compute a prime child without a private key")
      ELSE IF NumGE(BytesToNum(ichild.left), NatToNum(N))
      THEN Fail("InvalidPathError", "The derived key is too large.")
      ELSE IF ~key.ok
      THEN Fail("ValueError", "coincurve")
      ELSE MakeChild(self, hexlify(ichild.right), child_number_hex, key, as_private)

\* create_new_address_for_user: max_id = 0x80000000.
max_id == HexToNum(<<"8","0","0","0","0","0","0","0">>)

\* HDWallet.create_new_address_for_user(user_id).
create_new_address_for_user(self, user_id) ==
  IF (user_id.neg /\ user_id.mag # <<>>) \/ NumLT(max_id, user_id.mag)
  THEN Fail("ValueError", "Invalid UserID. Must be between 0 and max_id")
  ELSE get_child(self, user_id, "False", FALSE)

----------------------------------------------------------------------------
(* Factories                                                               *)

\* b"Bitcoin seed".
BitcoinSeed == <<66, 105, 116, 99, 111, 105, 110, 32, 115, 101, 101, 100>>

\* HDWallet.from_master_seed(seed, network).
from_master_seed(seed, network) ==
  LET I == HmacSha512(BitcoinSeed, seed)
  IN  HDWallet(StrV(hexlify(I.right)), IntV(<<>>), IntV(<<>>), IntV(<<>>), NumToNat(BytesToNum(I.left)), None, NoPoint, NoPoint, network)

----------------------------------------------------------------------------
(* Path-based derivation                                                   *)

\* str.split("/").
RECURSIVE SplitAcc(_, _, _)
SplitAcc(s, cur, acc) ==
  IF s = <<>> THEN Append(acc, cur)
  ELSE IF s[1] = "/" THEN SplitAcc(Tail(s), <<>>, Append(acc, cur))
  ELSE SplitAcc(Tail(s), Append(cur, s[1]), acc)

Split(s) == SplitAcc(s, <<>>, <<>>)

\* part.replace("'", "").replace("p", "").
RECURSIVE RemovePrimeMarks(_)
RemovePrimeMarks(s) ==
  IF s = <<>> THEN <<>>
  ELSE IF s[1] = "'" \/ s[1] = "p" THEN RemovePrimeMarks(Tail(s))
  ELSE <<s[1]>> \o RemovePrimeMarks(Tail(s))

\* The numeral of a string of decimal digits.
RECURSIVE DecToNum(_, _)
DecToNum(s, acc) ==
  IF s = <<>> THEN acc
  ELSE DecToNum(Tail(s), Strip(MulAdd(acc, 10, CHOOSE d \in 0..9 : DecChars[d + 1] = s[1])))

\* int(part): an optional sign and decimal digits (the paths of the model hold
\* no white space and no underscore); ok is FALSE where int raises ValueError.
PyInt(s) ==
  LET signed == s # <<>> /\ (s[1] = "-" \/ s[1] = "+")
      digits == IF signed THEN Tail(s) ELSE s
  IN  IF digits = <<>> \/ \E i \in 1..Len(digits) : ~IsDecChar(digits[i])
      THEN [ok |-> FALSE, val |-> Pos(<<>>)]
      ELSE [ok |-> TRUE,
            val |-> [neg |-> (signed /\ s[1] = "-"), mag |-> DecToNum(digits, <<>>)]]

EndsWithPub(s) ==
  Len(s) >= 4 /\ SubSeq(s, Len(s) - 3, Len(s)) = <<".", "p", "u", "b">>

\* Variant of PathStep: the prime mark is removed from the segment and then
\* forgotten (is_prime stays None).
PathStepUnmarked(child, part) ==
  IF ~child.ok THEN child
  ELSE IF part = <<"m">> \/ part = <<"M">> THEN child
  ELSE IF part = <<>> THEN Fail("IndexError", "string index out of range")
  ELSE LET n == PyInt(RemovePrimeMarks(part))
       IN  IF ~n.ok THEN Fail("InvalidPathError", "is not a valid path")
           ELSE get_child(child.node, n.val, "None", TRUE)

\* One iteration of the loop of get_child_for_path over a path segment; child
\* is the outcome so far.
PathStep(child, part) ==
  IF ~child.ok THEN child
  ELSE IF part = <<"m">> \/ part = <<"M">> THEN child
  ELSE IF part = <<>> THEN Fail("IndexError", "string index out of range")
  ELSE LET marked == part[Len(part)] = "'" \/ part[Len(part)] = "p"
           is_prime == IF marked THEN "True" ELSE "None"
           n == PyInt(IF marked THEN RemovePrimeMarks(part) ELSE part)
       IN  IF ~n.ok THEN Fail("InvalidPathError", "is not a valid path")
           ELSE get_child(child.node, n.val, is_prime, TRUE)

RECURSIVE PathLoop(_, _)
PathLoop(child, parts) ==
  IF parts = <<>> THEN child ELSE PathLoop(PathStep(child, parts[1]), Tail(parts))

\* Variant of PathAsPrivate: only the .pub suffix asks for a public result,
\* the capital M is not looked at.
PathAsPrivateSuffixOnly(path) == ~EndsWithPub(path)

\* get_child_for_path, lines 219-225: as_private is False for a path that
\* starts with M or ends with .pub.
PathAsPrivate(path) == ~(path # <<>> /\ path[1] = "M") /\ ~EndsWithPub(path)

\* HDWallet.get_child_for_path(path).
get_child_for_path(self, path) ==
  LET as_private == PathAsPrivate(path)
      stripped == IF EndsWithPub(path) THEN SubSeq(path, 1, Len(path) - 4) ELSE path
      child == PathLoop(Ok(self), Split(stripped))
  IN  IF path = <<>> THEN Fail("InvalidPathError", "is not a valid path")
      ELSE IF child.ok /\ ~as_private THEN public_copy(child.node)
      ELSE child

----------------------------------------------------------------------------
(* Key recovery                                                            *)

\* PrivateKey.__sub__: the difference of two scalars modulo N.
SubScalars(a, b) == (a - b) % N

\* Variant of CrackOffset: the child number is left out of the HMAC message.
CrackOffsetNoIndex(self, child_private_key) ==
  LET ichild == HmacSha512(unhexlify(self.chain_code), unhexlify(get_public_key_hex(self)))
  IN  NumToNat(BytesToNum(ichild.left))

\* crack_private_key, lines 406-417: the public child derivation repeated,
\* I_L as a private key.
CrackOffset(self, child_private_key) ==
  LET child_number_hex == long_to_hex(child_private_key.child_number, 8)
      data == get_public_key_hex(self) \o child_number_hex
      ichild == HmacSha512(unhexlify(self.chain_code), unhexlify(data))
  IN  NumToNat(BytesToNum(ichild.left))

\* HDWallet.crack_private_key(child_private_key).
crack_private_key(self, child_private_key) ==
  LET privkey == CrackOffset(self, child_private_key)
  IN  IF child_private_key.parent_fingerprint # fingerprint(self)
      THEN Fail("InvalidChildException", "This is not a valid child")
      ELSE IF NumGE(child_private_key.child_number, boundary)
      THEN Fail("InvalidChildException", "Cannot crack private keys from private derivation")
      ELSE IF child_private_key.private_key = None
      THEN Fail("TypeError", "unsupported operand type(s) for -")
      ELSE HDWallet(StrV(self.chain_code), IntV(NatToNum(self.depth)), StrV(self.parent_fingerprint), IntV(self.child_number), None, SubScalars(child_private_key.private_key, privkey), NoPoint, NoPoint, self.network)

----------------------------------------------------------------------------
(* Serialization                                                           *)

\* Variant of NetworkVersion: the private key is looked for, the network's
\* version words are used without looking whether they are defined.
NetworkVersionUnchecked(self, private, segwit) ==
  LET net == NetTable[self.network]
  IN  IF private /\ self.private_key = None
      THEN Fail("WatchOnlyWalletError", "Private key is not available")
      ELSE OkData(long_to_hex(IF private
                              THEN (IF segwit THEN net.EXT_SEGWIT_SECRET_KEY ELSE net.EXT_SECRET_KEY)
                              ELSE (IF segwit THEN net.EXT_SEGWIT_PUBLIC_KEY ELSE net.EXT_PUBLIC_KEY), 8))

\* serialize, lines 443-466: the version word for (private, segwit), or the
\* exception raised when the node or its network cannot provide it.
NetworkVersion(self, private, segwit) ==
  LET net == NetTable[self.network]
  IN  IF private
      THEN (IF self.private_key = None
            THEN Fail("WatchOnlyWalletError", "Private key is not available")
            ELSE IF segwit
            THEN (IF net.EXT_SEGWIT_SECRET_KEY = <<>>
                  THEN Fail("SegwitError", "Segwit is not supported on this network")
                  ELSE OkData(long_to_hex(net.EXT_SEGWIT_SECRET_KEY, 8)))
            ELSE (IF net.EXT_SECRET_KEY = <<>>
                  THEN Fail("UnsupportedFeatureError", "private key serialization")
                  ELSE OkData(long_to_hex(net.EXT_SECRET_KEY, 8))))
      ELSE (IF segwit
            THEN (IF net.EXT_SEGWIT_PUBLIC_KEY = <<>>
                  THEN Fail("SegwitError", "Segwit is not supported on this network")
                  ELSE OkData(long_to_hex(net.EXT_SEGWIT_PUBLIC_KEY, 8)))
            ELSE (IF net.EXT_PUBLIC_KEY = <<>>
                  THEN Fail("UnsupportedFeatureError", "public key serialization")
                  ELSE OkData(long_to_hex(net.EXT_PUBLIC_KEY, 8))))

\* serialize, lines 467-472: depth, parent fingerprint, child number and chain
\* code as hex.
SerializeHeader(self) ==
  long_to_hex(NatToNum(self.depth), 2)
    \o SubSeq(self.parent_fingerprint, 3, Len(self.parent_fingerprint))
    \o long_to_hex(self.child_number, 8)
    \o self.chain_code

\* HDWallet.serialize(private, segwit): the hex string.
serialize(self, private, segwit) ==
  LET network_version == NetworkVersion(self, private, segwit)
  IN  IF ~network_version.ok THEN network_version
      ELSE OkData(network_version.data \o SerializeHeader(self)
                    \o (IF private THEN <<"0", "0">> \o get_private_key_hex(self)
                                   ELSE get_public_key_hex(self)))

\* deserialize, lines 528-538: the octets that are sliced.  The key is a hex
\* string: 156 or 220 characters are unhexlified, any other length is
\* left as the characters' own octets.  (A key of 111 characters, the base58
\* form, is not among the inputs of the model.)
KeyOctets(key) ==
  IF Len(key) \in {78 * 2, (78 + 32) * 2} THEN unhexlify(key)
  ELSE [i \in 1..Len(key) |-> Ascii(key[i])]

\* Variant of IntBase10: characters that are no decimal digits are skipped
\* instead of making int() fail.
IntBase10Lenient(chars) ==
  [ok |-> TRUE, zero |-> \A i \in 1..Len(chars) : chars[i] = "0" \/ ~IsDecChar(chars[i])]

\* Variant of IntBase10: every child number reads as zero.
IntBase10Zero(chars) == [ok |-> TRUE, zero |-> TRUE]

\* int(hexlify(child)) of line 546, in base 10: ok is FALSE where int raises
\* ValueError (a hex digit a..f), else zero tells whether the value is 0.
IntBase10(chars) ==
  IF \E i \in 1..Len(chars) : ~IsDecChar(chars[i])
  THEN [ok |-> FALSE, zero |-> FALSE]
  ELSE [ok |-> TRUE, zero |-> \A i \in 1..Len(chars) : chars[i] = "0"]

\* Variant of DeserializeKey: the upper end of the scalar range is compared
\* with > instead of >=, and the version of a public key is not compared.
DeserializeKeyLoose(version, key_data, network) ==
  LET net == NetTable[network]
      version_long == BytesToNum(version)
      point_type == key_data[1]
      iexponent == BytesToNum(Tail(key_data))
      pubkey == PublicFromBytes(key_data)
  IN  IF point_type = 0
      THEN (IF version_long # net.EXT_SECRET_KEY
            THEN Fail("IncompatibleNetworkException", "private version")
            ELSE IF iexponent = <<>> \/ NumLT(NatToNum(N), iexponent)
            THEN Fail("ValueError", "Private key is out of range")
            ELSE [ok |-> TRUE, exponent |-> NumToNat(iexponent), pubkey |-> NoPoint])
      ELSE IF point_type \in {2, 3, 4}
      THEN (IF pubkey = NoPoint
            THEN Fail("ValueError", "PublicKey.from_bytes")
            ELSE [ok |-> TRUE, exponent |-> None, pubkey |-> pubkey])
      ELSE Fail("ValueError", "Invalid key_data prefix")

\* deserialize, lines 548-575: the key material of the key-data field, or the
\* exception raised.
DeserializeKey(version, key_data, network) ==
  LET net == NetTable[network]
      version_long == BytesToNum(version)
      point_type == key_data[1]
      iexponent == BytesToNum(Tail(key_data))
      pubkey == PublicFromBytes(key_data)
  IN  IF point_type = 0
      THEN (IF version_long # net.EXT_SECRET_KEY
            THEN Fail("IncompatibleNetworkException", "private version")
            ELSE IF iexponent = <<>> \/ NumGE(iexponent, NatToNum(N))
            THEN Fail("ValueError", "Private key is out of range")
            ELSE [ok |-> TRUE, exponent |-> NumToNat(iexponent), pubkey |-> NoPoint])
      ELSE IF point_type \in {2, 3, 4}
      THEN (IF version_long # net.EXT_PUBLIC_KEY
            THEN Fail("IncompatibleNetworkException", "public version")
            ELSE IF pubkey = NoPoint
            THEN Fail("ValueError", "PublicKey.from_bytes")
            ELSE [ok |-> TRUE, exponent |-> None, pubkey |-> pubkey])
      ELSE Fail("ValueError", "Invalid key_data prefix")

\* HDWallet.deserialize(key, network) for a key of at least 46 octets.
deserialize(key, network) ==
  LET octets == KeyOctets(key)
      version == SubSeq(octets, 1, 4)
      depth == octets[5]
      parent_fingerprint == SubSeq(octets, 6, 9)
      child == SubSeq(octets, 10, 13)
      chain_code == SubSeq(octets, 14, 45)
      key_data == SubSeq(octets, 46, Len(octets))
      childInt == IntBase10(hexlify(child))
      k == DeserializeKey(version, key_data, network)
  IN  IF depth = 0 /\ BytesToNum(parent_fingerprint) # <<>>
      THEN Fail("ValueError", "Zero depth with non-zero parent fingerprint")
      ELSE IF depth = 0 /\ ~childInt.ok
      THEN Fail("ValueError", "invalid literal for int() with base 10")
      ELSE IF depth = 0 /\ ~childInt.zero
      THEN Fail("ValueError", "Zero depth with non-zero index")
      ELSE IF ~k.ok THEN k
      ELSE HDWallet(IntV(BytesToNum(chain_code)), IntV(NatToNum(depth)), IntV(BytesToNum(parent_fingerprint)), IntV(BytesToNum(child)), k.exponent, None, NoPoint, k.pubkey, network)

----------------------------------------------------------------------------
(* Inputs of the model                                                     *)

\* The deepest node the program keeps as its current node.
MaxDepth == 1

\* Seeds are the one-octet strings 0..MaxSeed whose master key is valid.
MaxSeed == 3

\* The depth to which the deep specification follows a chain of children.
MaxChain == 256

Seeds ==
  {s \in {<<b>> : b \in 0..MaxSeed} :
     LET il == BytesToNum(HmacSha512(BitcoinSeed, s).left)
     IN  il # <<>> /\ NumLT(il, NatToNum(N))}

\* 0x7FFFFFFF, the largest index.
MaxIndex == HexToNum(<<"7","f","f","f","f","f","f","f">>)

\* The child_number arguments given to get_child: small, largest, first
\* out of range, and their negatives.
ChildNumbers ==
  {Pos(<<>>), Pos(<<1>>), Neg(<<1>>), Pos(MaxIndex), Neg(MaxIndex),
   Pos(boundary), Neg(boundary)}

Tri == {"None", "True", "False"}

\* The calls of get_child: every child number with every is_prime, and the
\* stripped result (as_private=False) for the small indices.
GetChildCalls ==
  {[child_number |-> c, is_prime |-> p, as_private |-> TRUE] : c \in ChildNumbers, p \in Tri}
    \cup {[child_number |-> c, is_prime |-> p, as_private |-> FALSE] :
            c \in {Pos(<<>>), Neg(<<1>>)}, p \in {"None", "False"}}

\* A path segment: a small index and its mark ("" for none).
Seg(i, mark) == [i |-> i, mark |-> mark]

\* The segment lists of the well-formed paths.
SegLists ==
  {<<>>,
   <<Seg(0, "")>>,
   <<Seg(0, "'")>>,
   <<Seg(1, "p")>>,
   <<Seg(0, ""), Seg(1, "")>>,
   <<Seg(0, "'"), Seg(1, "")>>,
   <<Seg(0, ""), Seg(1, "'")>>,
   <<Seg(44, "p"), Seg(0, "")>>,
   <<Seg(0, "'"), Seg(1, ""), Seg(2, "'")>>}

\* str(i) for a natural number.
RECURSIVE NatToDec(_)
NatToDec(n) ==
  IF n < 10 THEN <<DecChars[n + 1]>> ELSE Append(NatToDec(n \div 10), DecChars[(n % 10) + 1])

RECURSIVE RenderSegs(_)
RenderSegs(segs) ==
  IF segs = <<>> THEN <<>>
  ELSE <<"/">> \o NatToDec(segs[1].i)
         \o (IF segs[1].mark = "" THEN <<>> ELSE <<segs[1].mark>>)
         \o RenderSegs(Tail(segs))

\* The path string of a root letter, a segment list and the .pub suffix.
RenderPath(root, segs, pub) ==
  <<root>> \o RenderSegs(segs) \o (IF pub THEN <<".", "p", "u", "b">> ELSE <<>>)

\* Strings outside the path grammar.
RawPaths ==
  {<<>>,
   <<"m", "/", "/", "0">>,
   <<"m", "/">>,
   <<".", "p", "u", "b">>,
   <<"m", "/", "x">>,
   <<"m", "/", "-", "1">>,
   <<"m", "/", "p">>,
   <<"m", "/", "2", "1", "4", "7", "4", "8", "3", "6", "4", "8">>}

\* The segment lists also asked for in the public-only forms.
PubSegLists ==
  {<<Seg(0, "")>>, <<Seg(0, "'"), Seg(1, "")>>, <<Seg(0, ""), Seg(1, "")>>,
   <<Seg(0, ""), Seg(1, "'")>>}

Paths ==
  {RenderPath("m", segs, FALSE) : segs \in SegLists}
    \cup {RenderPath("M", segs, FALSE) : segs \in PubSegLists}
    \cup {RenderPath("m", segs, TRUE) : segs \in PubSegLists}
    \cup {RenderPath("M", segs, TRUE) : segs \in PubSegLists}
    \cup RawPaths

\* What is done to a serialized key before it is deserialized: nothing; the
\* depth octet set to 0; the last digit of the child number set to 1; the
\* depth octet set to 0 and the last digit of the child number to a; the
\* first octet of the key data set to 01 or to 04; the scalar of a private
\* key set to 0 or to N.
Tampers ==
  {"none", "depth0", "index1", "depth0indexa", "prefix01", "prefix04",
   "scalar0", "scalarN"}

\* The hex characters of the scalar n in a key-data field.
ScalarChars(n) == hexlify(NatToBytes(n, 32))

Tamper(key, t) ==
  LET private == key[91] = "0" /\ key[92] = "0"
  IN  IF t = "depth0" THEN [key EXCEPT ![9] = "0", ![10] = "0"]
      ELSE IF t = "index1" THEN [key EXCEPT ![26] = "1"]
      ELSE IF t = "depth0indexa" THEN [key EXCEPT ![9] = "0", ![10] = "0", ![26] = "a"]
      ELSE IF t = "prefix01" THEN [key EXCEPT ![91] = "0", ![92] = "1"]
      ELSE IF t = "prefix04" THEN [key EXCEPT ![91] = "0", ![92] = "4"]
      ELSE IF t = "scalar0" /\ private THEN SubSeq(key, 1, 92) \o ScalarChars(0)
      ELSE IF t = "scalarN" /\ private THEN SubSeq(key, 1, 92) \o ScalarChars(N)
      ELSE key

\* The user_id arguments given to create_new_address_for_user: small,
\* largest index, max_id, max_id + 1, negative.
UserIds ==
  {Pos(<<>>), Pos(<<1>>), Pos(MaxIndex), Pos(max_id), Pos(NumAdd(max_id, <<1>>)), Neg(<<1>>)}

\* The forms in which depth, parent fingerprint and child number are given to
\* the constructor: an int, a hex string of the field's length, and hex
\* strings of other lengths.
DepthForms == {IntV(<<1>>), StrV(<<"0", "1">>), StrV(<<"0", "0", "0", "1">>)}

FingerprintForms ==
  {IntV(<<>>), StrV(<<"0", "0", "0", "0", "0", "0", "0", "0">>), StrV(<<"0", "0", "0", "0">>)}

ChildNumberForms ==
  {IntV(<<1>>), StrV(<<"0", "0", "0", "0", "0", "0", "0", "1">>), StrV(<<"0", "1">>)}

----------------------------------------------------------------------------
(* The state machine                                                       *)

VARIABLES
  wallet,   \* the node the program holds
  last,     \* the last operation: its receiver, arguments and outcome
  lb        \* the EthereumAPIClient and its call of get_transaction_history

vars == <<wallet, last, lb>>

\* EthereumAPIClient.__init__, lines 18-22 and 35: a balancer over a list of
\* providers with transactions already known, before any call.  failures
\* counts the fetches of the call that raised NetworkException, succeeded
\* tells whether a fetch of the call has returned.
Balancer(providers, max_cycles, transactions) ==
  [providers |-> providers, max_cycles |-> max_cycles, current_index |-> 0,
   transactions |-> transactions, ntransactions |-> -1, cycle |-> 1,
   pc |-> "idle", failures |-> 0, succeeded |-> FALSE]

\* No balancer is in use.
NoBalancer == Balancer(0, 0, 0)

\* The record of an operation on receiver self with outcome out.
Op(name, self, out) ==
  [op |-> name, self |-> self, out |-> out,
   child_number |-> Pos(<<>>), is_prime |-> "None", as_private |-> TRUE,
   path |-> <<>>, key |-> <<>>, other |-> NoNode, origin |-> NoNode,
   depth |-> IntV(<<>>), parent_fingerprint |-> IntV(<<>>), child_form |-> IntV(<<>>),
   private |-> FALSE, segwit |-> FALSE, tamper |-> "none", network |-> "none"]

\* The node held after an operation: its result when there is one and it is
\* not deeper than cap.
Keep(out, cap) ==
  IF out.ok /\ out.node # NoNode /\ out.node.depth <= cap THEN out.node ELSE wallet

Init ==
  \E seed \in Seeds, network \in AllNetworks :
    LET out == from_master_seed(seed, network)
    IN  /\ out.ok
        /\ wallet = out.node
        /\ last = Op("from_master_seed", NoNode, out)
        /\ lb = NoBalancer

\* The program goes on from a node it has just obtained: a state whose last
\* operation yielded the current node.  (After an operation that yields no
\* node, or one that is not kept, the same node is held, and what can follow
\* depends on that node alone.)
Fresh == last.out.ok /\ last.out.node = wallet

GetChild ==
  /\ Fresh
  /\ UNCHANGED lb
  /\ \E c \in GetChildCalls :
       LET out == get_child(wallet, c.child_number, c.is_prime, c.as_private)
       IN  /\ last' = [Op("get_child", wallet, out) EXCEPT
                         !.child_number = c.child_number, !.is_prime = c.is_prime,
                         !.as_private = c.as_private]
           /\ wallet' = Keep(out, MaxDepth)

GetChildForPath ==
  /\ Fresh
  /\ UNCHANGED lb
  /\ \E path \in Paths :
       LET out == get_child_for_path(wallet, path)
       IN  /\ last' = [Op("get_child_for_path", wallet, out) EXCEPT !.path = path]
           /\ wallet' = Keep(out, MaxDepth)

PublicCopy ==
  /\ Fresh
  /\ UNCHANGED lb
  /\ LET out == public_copy(wallet)
     IN  /\ last' = Op("public_copy", wallet, out)
         /\ wallet' = Keep(out, MaxDepth)

\* The public copy of a node the program held (the current node, or the
\* receiver of the last operation) cracks the current node as its child.
CrackPrivateKey ==
  /\ Fresh
  /\ UNCHANGED lb
  /\ \E parent \in {wallet, last.self} \ {NoNode} :
    LET pub == public_copy(parent)
        out == crack_private_key(pub.node, wallet)
    IN  /\ pub.ok
        /\ last' = [Op("crack_private_key", pub.node, out) EXCEPT
                      !.other = wallet, !.origin = parent]
        /\ wallet' = Keep(out, MaxDepth)

Serialize ==
  /\ Fresh
  /\ UNCHANGED lb
  /\ \E private \in BOOLEAN, segwit \in BOOLEAN :
    LET out == serialize(wallet, private, segwit)
    IN  /\ last' = [Op("serialize", wallet, out) EXCEPT
                      !.private = private, !.segwit = segwit]
        /\ wallet' = wallet

\* The key just serialized is read back, as it is or tampered with.
Deserialize ==
  /\ last.op = "serialize" /\ last.out.ok
  /\ UNCHANGED lb
  /\ \E t \in Tampers, network \in Networks :
       LET key == Tamper(last.out.data, t)
           out == deserialize(key, network)
       IN  /\ last' = [Op("deserialize", last.self, out) EXCEPT
                         !.key = key,
                         !.private = last.private, !.segwit = last.segwit,
                         !.tamper = t, !.network = network]
           /\ wallet' = Keep(out, MaxDepth)

\* A node is constructed directly around the key of a master node, with
\* depth, parent fingerprint and child number given in one of their forms
\* (recorded as depth, parent_fingerprint and child_form).
Construct ==
  /\ Fresh
  /\ UNCHANGED lb
  /\ wallet.depth = 0 /\ wallet.private_key # None
  /\ \E d \in DepthForms, f \in FingerprintForms, c \in ChildNumberForms :
       LET out == HDWallet(StrV(wallet.chain_code), d, f, c, wallet.private_key, None, NoPoint, NoPoint, wallet.network)
       IN  /\ last' = [Op("HDWallet", wallet, out) EXCEPT
                         !.depth = d, !.parent_fingerprint = f, !.child_form = c]
           /\ wallet' = wallet

CreateNewAddressForUser ==
  /\ Fresh
  /\ UNCHANGED lb
  /\ \E user_id \in UserIds :
       LET out == create_new_address_for_user(wallet, user_id)
       IN  /\ last' = [Op("create_new_address_for_user", wallet, out) EXCEPT
                         !.child_number = user_id]
           /\ wallet' = Keep(out, MaxDepth)

Next ==
  \/ Construct
  \/ CreateNewAddressForUser
  \/ GetChild
  \/ GetChildForPath
  \/ PublicCopy
  \/ CrackPrivateKey
  \/ Serialize
  \/ Deserialize

Spec == Init /\ [][Next]_vars

----------------------------------------------------------------------------
(* Long chains of children: one master, followed down to depth MaxChain    *)

\* The calls of get_child made along a long chain.
DeepCalls ==
  {[child_number |-> c, is_prime |-> "None", as_private |-> TRUE] :
     c \in {Pos(<<>>), Pos(<<1>>)}}

InitDeep ==
  LET out == from_master_seed(<<1>>, "BTC")
  IN  /\ out.ok
      /\ wallet = out.node
      /\ last = Op("from_master_seed", NoNode, out)
      /\ lb = NoBalancer

DeepGetChild ==
  /\ Fresh
  /\ UNCHANGED lb
  /\ \E c \in DeepCalls :
       LET out == get_child(wallet, c.child_number, c.is_prime, c.as_private)
       IN  /\ last' = [Op("get_child", wallet, out) EXCEPT
                         !.child_number = c.child_number, !.is_prime = c.is_prime,
                         !.as_private = c.as_private]
           /\ wallet' = Keep(out, MaxChain)

DeepSerialize ==
  /\ Fresh
  /\ UNCHANGED lb
  /\ \E private \in BOOLEAN :
       LET out == serialize(wallet, private, FALSE)
       IN  /\ last' = [Op("serialize", wallet, out) EXCEPT !.private = private]
           /\ wallet' = wallet

DeepDeserialize ==
  /\ last.op = "serialize" /\ last.out.ok
  /\ UNCHANGED lb
  /\ LET out == deserialize(last.out.data, last.self.network)
     IN  /\ last' = [Op("deserialize", last.self, out) EXCEPT
                       !.key = last.out.data,
                       !.private = last.private, !.network = last.self.network]
         /\ wallet' = wallet

NextDeep ==
  \/ DeepGetChild
  \/ DeepSerialize
  \/ DeepDeserialize

SpecDeep == InitDeep /\ [][NextDeep]_vars

----------------------------------------------------------------------------
(* The provider load balancer (address/eth/loadbalancer.py, class          *)
(* EthereumAPIClient).  A list of transactions is modelled by its length.  *)
(* The provider clients are external: a provider's fetch either returns or *)
(* raises NetworkException, and in both cases it may have appended         *)
(* transactions to the list it was handed.                                 *)

\* The largest number of providers of a balancer.
MaxProviders == 3

\* The largest max_cycles of a balancer.
MaxCycles == 2

\* The largest number of transactions the providers know of.
MaxTx == 3

\* advance_to_next_provider, lines 90-94.
advance_to_next_provider(self) ==
  IF self.providers = 0
  THEN self
  ELSE [self EXCEPT !.current_index = (self.current_index + 1) % self.providers]

\* The balancers after construction, before get_transaction_history runs.
InitLB ==
  /\ wallet = NoNode
  /\ last = Op("EthereumAPIClient", NoNode, Ok(NoNode))
  /\ \E providers \in 1..MaxProviders, max_cycles \in 1..MaxCycles, transactions \in 0..1 :
       lb = Balancer(providers, max_cycles, transactions)

\* get_transaction_history, lines 97-99: the locals before the loop.
LBCall ==
  /\ lb.pc = "idle"
  /\ lb' = [lb EXCEPT !.ntransactions = -1, !.cycle = 1, !.pc = "while"]
  /\ UNCHANGED <<wallet, last>>

\* Line 100, the loop condition is false: the method returns.
LBLoopExit ==
  /\ lb.pc = "while"
  /\ lb.ntransactions = lb.transactions
  /\ lb' = [lb EXCEPT !.pc = "returned"]
  /\ UNCHANGED <<wallet, last>>

\* Lines 100-102: the loop is entered with the cycles used up.
LBRaise ==
  /\ lb.pc = "while"
  /\ lb.ntransactions # lb.transactions
  /\ lb.cycle > lb.max_cycles
  /\ lb' = [lb EXCEPT !.pc = "raised"]
  /\ UNCHANGED <<wallet, last>>

\* Lines 100-104: the loop is entered and the current provider is handed
\* the transactions.
LBEnter ==
  /\ lb.pc = "while"
  /\ lb.ntransactions # lb.transactions
  /\ lb.cycle <= lb.max_cycles
  /\ lb' = [lb EXCEPT !.ntransactions = lb.transactions, !.pc = "fetch"]
  /\ UNCHANGED <<wallet, last>>

\* Lines 106-108: the provider's fetch returns, having appended added
\* transactions; the loop is left by break.
LBFetchReturns ==
  /\ lb.pc = "fetch"
  /\ \E added \in 0..(MaxTx - lb.transactions) :
       lb' = [lb EXCEPT !.transactions = lb.transactions + added,
                        !.succeeded = TRUE, !.pc = "returned"]
  /\ UNCHANGED <<wallet, last>>

\* Lines 106, 109-113: the provider's fetch raises NetworkException, having
\* appended added transactions; the balancer moves to the next provider.
LBFetchFails ==
  /\ lb.pc = "fetch"
  /\ \E added \in 0..(MaxTx - lb.transactions) :
       lb' = [advance_to_next_provider(lb) EXCEPT
                !.transactions = lb.transactions + added,
                !.cycle = lb.cycle + 1,
                !.failures = lb.failures + 1,
                !.pc = "while"]
  /\ UNCHANGED <<wallet, last>>

NextLB ==
  \/ LBCall
  \/ LBLoopExit
  \/ LBRaise
  \/ LBEnter
  \/ LBFetchReturns
  \/ LBFetchFails

SpecLB == InitLB /\ [][NextLB]_vars

----------------------------------------------------------------------------
(* Properties                                                              *)

\* The last operation produced a node.
Produced == last.out.ok /\ last.out.node # NoNode

\* A child number whose absolute value is below 2^31.
InRange(child_number) == NumLT(child_number.mag, boundary)

\* The derivation a call get_child(child_number, is_prime) on parent stands
\* for in BIP32: whether it is prime, its child number, and the HMAC-SHA512 of
\* the parent's key material and the child number under the parent's chain
\* code.
Derivation(parent, child_number, is_prime) ==
  LET prime == (is_prime = "True") \/ (is_prime = "None" /\ child_number.neg /\ child_number.mag # <<>>)
      number == IF prime THEN NumAdd(child_number.mag, boundary) ELSE child_number.mag
      material == IF prime THEN <<"0", "0">> \o PrivateToHex(parent.private_key)
                           ELSE PublicToHex(parent.public_key)
      I == HmacSha512(unhexlify(parent.chain_code), unhexlify(material \o long_to_hex(number, 8)))
  IN  [prime |-> prime, number |-> number, IL |-> BytesToNum(I.left), IR |-> I.right]

\* get_child applied segment by segment: is_prime=True for a marked segment,
\* is_prime=False for an unmarked one.
RECURSIVE ChainOfCalls(_, _)
ChainOfCalls(out, segs) ==
  IF segs = <<>> \/ ~out.ok THEN out
  ELSE ChainOfCalls(get_child(out.node, Pos(NatToNum(segs[1].i)), IF segs[1].mark = "" THEN "False" ELSE "True", TRUE), Tail(segs))

\* C1: public and private derivation agree.  When get_child(i, is_prime=False)
\* with 0 <= i < 2^31 succeeds on a node holding a private key, and the same
\* call succeeds on the node's public copy, the public copy of the first
\* child equals the second child.
C1_PublicPrivateAgree ==
  (/\ last.op = "get_child" /\ last.out.ok /\ last.as_private
   /\ last.self.private_key # None
   /\ last.is_prime = "False" /\ ~last.child_number.neg /\ InRange(last.child_number))
  => LET direct == get_child(public_copy(last.self).node, last.child_number, "False", TRUE)
     IN  direct.ok => direct.node = public_copy(last.out.node).node

\* C2: serialization round-trips.  Reading back an untampered serialization
\* under the node's own network succeeds and gives the node itself for
\* private=True and its public copy for private=False.
C2_SerializationRoundTrip ==
  (/\ last.op = "deserialize" /\ last.tamper = "none" /\ ~last.segwit
   /\ last.network = last.self.network)
  => /\ last.out.ok
     /\ last.out.node = IF last.private THEN last.self ELSE public_copy(last.self).node

\* C3: path derivation equals chained child derivation.  For a root holding a
\* private key and a path m/s1/.../sk, get_child_for_path gives what get_child
\* gives applied segment by segment (prime for a marked segment, non-prime
\* for an unmarked one).
C3_PathEqualsChain ==
  \A segs \in SegLists :
    (/\ last.op = "get_child_for_path"
     /\ last.self.private_key # None
     /\ last.path = RenderPath("m", segs, FALSE))
    => LET chain == ChainOfCalls(Ok(last.self), segs)
       IN  last.out.ok = chain.ok /\ last.out.node = chain.node

\* C3 happens: the path m/0'/1/2' has been followed from a private root.
C3_Witness ==
  /\ last.op = "get_child_for_path"
  /\ last.self.private_key # None
  /\ last.path = RenderPath("m", <<Seg(0, "'"), Seg(1, ""), Seg(2, "'")>>, FALSE)
  /\ last.out.ok
  /\ last.out.node.depth = last.self.depth + 3

\* The node cracked is a non-prime child of the node whose public copy cracks
\* it, and that node holds a private key.
CrackedChildOfOrigin ==
  /\ last.op = "crack_private_key"
  /\ last.origin.private_key # None
  /\ \E c \in ChildNumbers :
       /\ ~c.neg /\ InRange(c)
       /\ get_child(last.origin, c, "False", TRUE) = Ok(last.other)

\* C4: crack_private_key recovers the parent.  The public copy of w, given a
\* non-prime child of w, returns a node equal to w.
C4_CrackRecoversParent ==
  CrackedChildOfOrigin => last.out = Ok(last.origin)

\* C4 happens: a parent has been recovered from its public copy and a child.
C4_Witness ==
  /\ CrackedChildOfOrigin
  /\ last.out.ok
  /\ last.self.private_key = None
  /\ last.out.node.private_key = last.origin.private_key

\* C5: a child returned by get_child has chain code I_R, depth one more than
\* the parent's, the fingerprint computed from the parent's public key, the
\* requested index (plus 2^31 when prime) and the parent's network.
C5_ChildFields ==
  (last.op = "get_child" /\ last.out.ok)
  => LET parent == last.self
         child == last.out.node
         d == Derivation(parent, last.child_number, last.is_prime)
     IN  /\ child.chain_code = hexlify(d.IR)
         /\ child.depth = parent.depth + 1
         /\ child.parent_fingerprint =
              <<"0", "x">> \o SubSeq(hexlify(hash160(unhexlify(PublicToHex(parent.public_key)))), 1, 8)
         /\ child.child_number = d.number
         /\ child.network = parent.network

\* C5 happens: a prime child of a node that is itself a child.
C5_Witness ==
  /\ last.op = "get_child" /\ last.out.ok
  /\ last.is_prime = "True"
  /\ last.self.depth = 1
  /\ last.out.node.depth = 2

\* The failure of a prime derivation on a node without a private key.
WatchOnlyFailure ==
  ~last.out.ok /\ last.out.err = "WatchOnlyWalletError" /\ last.out.node = NoNode

\* C6: prime derivation on a watch-only node fails with WatchOnlyWalletError:
\* get_child(i, is_prime=True) for 0 <= i < 2^31, get_child(-i) for
\* 0 < i < 2^31, and get_child_for_path when a prime segment is reached on a
\* node without a private key.
C6_WatchOnlyPrimeFails ==
  /\ (/\ last.op = "get_child"
      /\ last.self.private_key = None
      /\ InRange(last.child_number)
      /\ \/ last.is_prime = "True" /\ ~last.child_number.neg
         \/ last.is_prime = "None" /\ last.child_number.neg /\ last.child_number.mag # <<>>)
     => WatchOnlyFailure
  /\ \A root \in {"m", "M"}, segs \in SegLists, pub \in BOOLEAN :
       \A j \in 1..Len(segs) :
         (/\ last.op = "get_child_for_path"
          /\ last.path = RenderPath(root, segs, pub)
          /\ segs[j].mark # ""
          /\ LET before == ChainOfCalls(Ok(last.self), SubSeq(segs, 1, j - 1))
             IN  before.ok /\ before.node.private_key = None)
         => WatchOnlyFailure

\* C6 happens: on a watch-only root the path M/0/1' derived the public child
\* 0 and then met the prime segment.
C6_Witness ==
  /\ last.op = "get_child_for_path"
  /\ last.self.private_key = None
  /\ last.path = RenderPath("M", <<Seg(0, ""), Seg(1, "'")>>, FALSE)
  /\ get_child(last.self, Pos(<<>>), "False", TRUE).ok
  /\ WatchOnlyFailure

\* C7: a child number of absolute value 2^31 or more fails with
\* InvalidPathError whatever is_prime is; 0x7FFFFFFF with is_prime=False
\* passes the range checks and the child derived has child number 0x7FFFFFFF.
C7_IndexBoundary ==
  /\ (last.op = "get_child" /\ ~InRange(last.child_number))
     => (~last.out.ok /\ last.out.err = "InvalidPathError" /\ last.out.node = NoNode)
  /\ (last.op = "get_child" /\ last.child_number = Pos(MaxIndex) /\ last.is_prime = "False")
     => /\ last.out.msg \notin {"Invalid child number",
                                "Invalid child number. Must be between 0 and boundary"}
        /\ last.out.ok => last.out.node.child_number = MaxIndex

\* C7 happens: get_child(0x7FFFFFFF, is_prime=False) has derived a child.
C7_Witness ==
  /\ last.op = "get_child"
  /\ last.child_number = Pos(MaxIndex) /\ last.is_prime = "False"
  /\ last.out.ok
  /\ last.out.node.child_number = MaxIndex

\* C8: when the parent holds a private key and the child scalar
\* (I_L + parent scalar) mod N is zero, get_child fails with InvalidPathError
\* and yields no node.
C8_ZeroScalarInvalidPath ==
  (/\ last.op = "get_child"
   /\ last.self.private_key # None
   /\ InRange(last.child_number)
   /\ ~(last.is_prime # "None" /\ last.child_number.neg)
   /\ LET IL == Derivation(last.self, last.child_number, last.is_prime).IL
      IN  NumLT(IL, NatToNum(N)) /\ (NumToNat(IL) + last.self.private_key) % N = 0)
  => (~last.out.ok /\ last.out.err = "InvalidPathError" /\ last.out.node = NoNode)

\* C9 as stated: every node produced has child number 0 if and only if its
\* depth is 0.
C9_ZeroIffDepthZero ==
  Produced => (last.out.node.child_number = <<>> <=> last.out.node.depth = 0)

\* C9, one direction only: every node produced with depth 0 has child number
\* 0 (a child of depth 1 or more may have child number 0).
C9_DepthZeroHasZeroChild ==
  Produced => (last.out.node.depth = 0 => last.out.node.child_number = <<>>)

\* C9 happens: a depth-0 node has been read back by deserialize.
C9_Witness ==
  /\ last.op = "deserialize"
  /\ Produced
  /\ last.out.node.depth = 0
  /\ last.out.node.child_number = <<>>

\* C10: every node obtained from a master by get_child / get_child_for_path
\* has depth in 0..255, and depth 0 only for the master.
C10_DepthFitsOneByte ==
  (Produced /\ last.op \in {"from_master_seed", "get_child", "get_child_for_path"})
  => /\ last.out.node.depth \in 0..255
     /\ (last.out.node.depth = 0)
          => \/ last.op = "from_master_seed"
             \/ /\ last.op = "get_child_for_path"
                /\ last.self.depth = 0
                /\ public_copy(last.out.node) = public_copy(last.self)

\* A path segment of the grammar: [0-9]+[p']?
IsSegment(part) ==
  LET marked == part # <<>> /\ part[Len(part)] \in {"p", "'"}
      digits == IF marked THEN SubSeq(part, 1, Len(part) - 1) ELSE part
  IN  digits # <<>> /\ \A i \in 1..Len(digits) : IsDecChar(digits[i])

\* The path grammar ^(m|M)(/[0-9]+[p']?)*(\.pub)?$
InGrammar(path) ==
  LET stripped == IF EndsWithPub(path) THEN SubSeq(path, 1, Len(path) - 4) ELSE path
      parts == Split(stripped)
  IN  /\ parts[1] \in {<<"m">>, <<"M">>}
      /\ \A i \in 2..Len(parts) : IsSegment(parts[i])

\* C11: get_child_for_path fails with InvalidPathError, and returns no node,
\* for every path outside the grammar (empty path, empty or unparseable
\* segment, index that is not a non-negative decimal number).
C11_PathParsingErrors ==
  (last.op = "get_child_for_path" /\ ~InGrammar(last.path))
  => (~last.out.ok /\ last.out.err = "InvalidPathError" /\ last.out.node = NoNode)

\* The last operation followed a public-only form (M/t, m/t.pub or M/t.pub)
\* of the segment list segs from a root holding a private key.
PublicFormOf(segs) ==
  /\ last.op = "get_child_for_path"
  /\ last.self.private_key # None
  /\ last.path \in {RenderPath("M", segs, FALSE), RenderPath("m", segs, TRUE),
                    RenderPath("M", segs, TRUE)}

\* C12: public-only paths strip the private key only at the end.  From a
\* private root, M/t, m/t.pub and M/t.pub all give the public copy of what
\* the chain of get_child calls of m/t gives (prime segments included), a
\* node without a private key.
C12_PublicPathStripsAtEnd ==
  \A segs \in SegLists :
    PublicFormOf(segs)
    => LET chain == ChainOfCalls(Ok(last.self), segs)
       IN  /\ last.out.ok = chain.ok
           /\ chain.ok => /\ last.out.node = public_copy(chain.node).node
                          /\ last.out.node.private_key = None

\* C12 happens: M/0'/1 has given a watch-only node of depth 2 below a private
\* root.
C12_Witness ==
  /\ PublicFormOf(<<Seg(0, "'"), Seg(1, "")>>)
  /\ last.path = RenderPath("M", <<Seg(0, "'"), Seg(1, "")>>, FALSE)
  /\ last.out.ok
  /\ last.out.node.private_key = None
  /\ last.out.node.depth = last.self.depth + 2

\* The version word serialize(private, segwit) selects in the network table
\* of the node serialized (<<>> when the network does not define it).
SelectedVersion ==
  LET net == NetTable[last.self.network]
  IN  IF last.private
      THEN (IF last.segwit THEN net.EXT_SEGWIT_SECRET_KEY ELSE net.EXT_SECRET_KEY)
      ELSE (IF last.segwit THEN net.EXT_SEGWIT_PUBLIC_KEY ELSE net.EXT_PUBLIC_KEY)

\* C13: serialize(private=True) on a node without a private key fails with
\* WatchOnlyWalletError for either segwit; otherwise an undefined version
\* word fails with SegwitError (segwit=True) or the unsupported-feature error
\* (segwit=False); a failing serialize returns no bytes.
C13_SerializeErrors ==
  last.op = "serialize"
  => /\ (last.private /\ last.self.private_key = None)
          => (~last.out.ok /\ last.out.err = "WatchOnlyWalletError")
     /\ (~(last.private /\ last.self.private_key = None) /\ SelectedVersion = <<>>)
          => (~last.out.ok /\ last.out.err = IF last.segwit THEN "SegwitError"
                                             ELSE "UnsupportedFeatureError")
     /\ ~last.out.ok => last.out.data = <<>>

\* C13 happens: a segwit serialization was asked of a node whose network
\* defines no segwit version words, and refused.
C13_Witness ==
  /\ last.op = "serialize"
  /\ last.segwit /\ last.private
  /\ last.self.private_key # None
  /\ SelectedVersion = <<>>
  /\ ~last.out.ok /\ last.out.err = "SegwitError" /\ last.out.data = <<>>

\* The fields of the 78-octet key read by the last deserialize.
KeyFields ==
  LET octets == unhexlify(last.key)
  IN  [version |-> BytesToNum(SubSeq(octets, 1, 4)),
       depth |-> octets[5],
       parent_fingerprint |-> BytesToNum(SubSeq(octets, 6, 9)),
       child |-> BytesToNum(SubSeq(octets, 10, 13)),
       prefix |-> octets[46],
       scalar |-> BytesToNum(SubSeq(octets, 47, 78))]

\* The last operation read a key of 78 octets given as 156 hex characters.
ReadKey == last.op = "deserialize" /\ Len(last.key) = 156

\* The scalar of the key-data field satisfies 1 <= scalar < N.
ScalarInRange == KeyFields.scalar # <<>> /\ NumLT(KeyFields.scalar, NatToNum(N))

\* C14: deserialize classifies the key by the first octet of the key data.
\* 0x00: private, accepted only with the network's private version (else
\* the incompatible-network error) and 1 <= scalar < N (else ValueError);
\* 0x02, 0x03, 0x04: public, accepted only with the network's public version
\* (else the incompatible-network error); any other octet: ValueError.  (The
\* depth-0 consistency checks come first.)
C14_KeyClassification ==
  (ReadKey /\ (KeyFields.depth # 0 \/ (KeyFields.parent_fingerprint = <<>> /\ KeyFields.child = <<>>)))
  => LET k == KeyFields
         net == NetTable[last.network]
         private == k.prefix = 0
         public == k.prefix \in {2, 3, 4}
     IN  /\ (private /\ k.version # net.EXT_SECRET_KEY)
              => (~last.out.ok /\ last.out.err = "IncompatibleNetworkException")
         /\ (private /\ k.version = net.EXT_SECRET_KEY /\ ~ScalarInRange)
              => (~last.out.ok /\ last.out.err = "ValueError")
         /\ (public /\ k.version # net.EXT_PUBLIC_KEY)
              => (~last.out.ok /\ last.out.err = "IncompatibleNetworkException")
         /\ (~private /\ ~public)
              => (~last.out.ok /\ last.out.err = "ValueError")
         /\ last.out.ok
              => \/ private /\ k.version = net.EXT_SECRET_KEY /\ ScalarInRange
                 \/ public /\ k.version = net.EXT_PUBLIC_KEY

\* C14 happens: a private key with the right version and the scalar N was
\* refused as out of range.
C14_Witness ==
  /\ ReadKey
  /\ last.tamper = "scalarN"
  /\ KeyFields.prefix = 0
  /\ KeyFields.version = NetTable[last.network].EXT_SECRET_KEY
  /\ KeyFields.scalar = NatToNum(N)
  /\ ~last.out.ok /\ last.out.err = "ValueError"

\* C15: a key whose depth octet is 0 and whose parent fingerprint or child
\* number is not zero is refused with ValueError, whatever the child number.
C15_MasterKeyConsistency ==
  (/\ ReadKey
   /\ KeyFields.depth = 0
   /\ (KeyFields.parent_fingerprint # <<>> \/ KeyFields.child # <<>>))
  => (~last.out.ok /\ last.out.err = "ValueError" /\ last.out.node = NoNode)

\* C15 happens: a master key with child number 0x0000000a (which does not
\* read as a decimal number) was refused.
C15_Witness ==
  /\ ReadKey
  /\ KeyFields.depth = 0
  /\ KeyFields.parent_fingerprint = <<>>
  /\ KeyFields.child = <<10>>
  /\ ~last.out.ok /\ last.out.err = "ValueError"

\* A constructor argument given as a hex string whose length is not hex_len.
WrongLength(val, hex_len) == val.t = "str" /\ Len(val.v) # hex_len

\* C16: when depth, child number or parent fingerprint is given in hex form,
\* construction succeeds only with exactly 1 octet (2 hex characters) for
\* depth and 4 octets (8 hex characters) for child number and parent
\* fingerprint; any other length fails with ValueError and yields no node.
C16_ConstructorLengths ==
  (/\ last.op = "HDWallet"
   /\ \/ WrongLength(last.depth, 2)
      \/ WrongLength(last.parent_fingerprint, 8)
      \/ WrongLength(last.child_form, 8))
  => (~last.out.ok /\ last.out.err = "ValueError" /\ last.out.node = NoNode)

\* The last operation was get_child with is_prime given (True or False) and
\* child_number outside [0, 2^31).
ExplicitOutOfRange ==
  /\ last.op = "get_child"
  /\ last.is_prime \in {"True", "False"}
  /\ \/ last.child_number.neg /\ last.child_number.mag # <<>>
     \/ ~InRange(last.child_number)

\* The failure with the range error of the explicit-is_prime branch.
RangeFailure ==
  ~last.out.ok /\ last.out.err = "ValueError" /\ last.out.node = NoNode

\* C17 as stated: with is_prime given, every child_number outside [0, 2^31)
\* makes get_child fail with ValueError.
C17_ExplicitRangeError ==
  ExplicitOutOfRange => RangeFailure

\* C17, by absolute value: with is_prime given, a negative child_number of
\* absolute value below 2^31 fails with ValueError; a child_number of
\* absolute value 2^31 or more fails with InvalidPathError (the boundary
\* check comes first); no node either way.
C17_ExplicitRangeByMagnitude ==
  ExplicitOutOfRange
  => IF InRange(last.child_number) THEN RangeFailure
     ELSE ~last.out.ok /\ last.out.err = "InvalidPathError" /\ last.out.node = NoNode

\* C17 happens: get_child(-1, is_prime=True) was refused with ValueError.
C17_Witness ==
  /\ ExplicitOutOfRange
  /\ last.child_number = Neg(<<1>>) /\ last.is_prime = "True"
  /\ RangeFailure

\* C18: create_new_address_for_user gives, for a user_id in [0, 2^31), the
\* watch-only non-prime child user_id of depth parent.depth + 1, and refuses
\* every other user_id, 0x80000000 included, with ValueError "Invalid
\* UserID" and no other error.
C18_NewAddressForUser ==
  last.op = "create_new_address_for_user"
  => IF ~last.child_number.neg /\ InRange(last.child_number)
     THEN LET child == get_child(last.self, last.child_number, "False", TRUE)
          IN  /\ last.out.ok = child.ok
              /\ child.ok => /\ last.out.node = public_copy(child.node).node
                             /\ last.out.node.private_key = None
                             /\ last.out.node.depth = last.self.depth + 1
                             /\ last.out.node.child_number = last.child_number.mag
     ELSE /\ ~last.out.ok /\ last.out.node = NoNode
          /\ last.out.err = "ValueError"
          /\ last.out.msg = "Invalid UserID. Must be between 0 and max_id"

\* C19: segwit extended keys round-trip.  Reading back an untampered
\* serialization made with segwit=True, under the node's own network, gives
\* the node itself for private=True and its public copy for private=False.
C19_SegwitRoundTrip ==
  (/\ last.op = "deserialize" /\ last.tamper = "none" /\ last.segwit
   /\ last.network = last.self.network)
  => /\ last.out.ok
     /\ last.out.node = IF last.private THEN last.self ELSE public_copy(last.self).node

====
